---- MODULE Spec2Model ----
(***************************************************************************)
(* A model of the crow-nest messaging code of Chapter 11: the request      *)
(* engine with its three timed attempts, the requestType dispatcher, the   *)
(* gossip flood, the connections (topology) flood, findRoute and           *)
(* routeRequest with its "route" relays.                                   *)
(*                                                                         *)
(* Nests are numbered 1..N.  Every request() call is one record of reqs;   *)
(* every transport message (a request on its way to the target's handler,  *)
(* or a handler's answer on its way back to the sender's callback) is one  *)
(* element of the bag net.  The transport may drop a message at any time.  *)
(* A message is in transit for less than one retry period, so a request    *)
(* message, or the answer of a handler that answers at once, that is still *)
(* in flight when the timer of its request fires never arrives.  A handler *)
(* that waits (the "route" relay, which answers when its own routeRequest  *)
(* settles) may answer across any number of timer periods.                 *)
(***************************************************************************)
EXTENDS Integers, Sequences, FiniteSets, Bags, TLC

VARIABLES
  neighbors,    \* nest.neighbors of every nest: [Nodes -> Seq(Nodes)], fixed
  gossip,       \* nest.state.gossip of every nest: [Nodes -> Seq(message)]
  connections,  \* nest.state.connections of every nest: [Nodes -> Map]
  reqs,         \* one record per request() call, in the order of the calls
  net,          \* bag of transport messages in flight
  call,         \* what the application has called, and how it returned
  lost          \* number of messages the transport has dropped so far

vars == <<neighbors, gossip, connections, reqs, net, call, lost>>

Nodes == DOMAIN neighbors

(***************************************************************************)
(* Bounds of the model.                                                    *)
(***************************************************************************)
MaxReqs == 4      \* request() calls followed in one run of a network spec
MaxLost == 3      \* messages the transport drops in one run

(***************************************************************************)
(* Program constants.                                                      *)
(***************************************************************************)
MaxAttempts == 3  \* `n < 3` in request's timer callback

NoNode == 0       \* null, where a nest name is expected
Pending == [st |-> "pending", val |-> ""]
Timeout == [st |-> "rejected", val |-> "Timeout"]
NoRoute == "NoRoute"

(***************************************************************************)
(* Small helpers on sequences.                                             *)
(***************************************************************************)
Range(s) == {s[k] : k \in 1..Len(s)}

Includes(s, x) == \E k \in 1..Len(s) : s[k] = x

Count(s, x) == Cardinality({k \in 1..Len(s) : s[k] = x})

Filter(s, skip) == SelectSeq(s, LAMBDA x : x # skip)

(***************************************************************************)
(* new Promise(...): resolve and reject settle the promise once; a later   *)
(* resolve or reject of a settled promise does nothing.                    *)
(***************************************************************************)
SettleAlways(outcome, new) == new

Settle(outcome, new) == IF outcome.st = "pending" THEN new ELSE outcome

Resolved(v) == [st |-> "resolved", val |-> v]
Rejected(e) == [st |-> "rejected", val |-> e]

(***************************************************************************)
(* Transport messages.                                                     *)
(***************************************************************************)
ReqMsg(i) ==
  [req |-> i, kind |-> "req", failed |-> "", value |-> "", prompt |-> TRUE]

\* prompt: the handler answered in the period of the attempt that reached it.
RepMsg(i, failed, value, prompt) ==
  [req |-> i, kind |-> "rep", failed |-> failed, value |-> value,
   prompt |-> prompt]

\* The messages of request i that its timer finds in flight, and the net
\* without them.
Overdue(nt, i) == {m \in DOMAIN nt : m.req = i /\ m.prompt}

BagSize(nt, ms) == IF ms = {} THEN 0 ELSE BagCardinality([m \in ms |-> nt[m]])

Without(nt, ms) == [m \in (DOMAIN nt) \ ms |-> nt[m]]

\* The answer a settled promise makes requestType's wrapper hand to callback.
AnswerOf(i, outcome) ==
  IF outcome.st = "resolved" THEN RepMsg(i, "", outcome.val, FALSE)
  ELSE RepMsg(i, outcome.val, "", FALSE)

OneMsg(m) == SetToBag({m})

(***************************************************************************)
(* request(nest, target, type, content): the record of one call, before    *)
(* attempt(1).  parent is the request whose "route" delivery waits for     *)
(* this promise (0: nobody does); exceptFor is the argument of the         *)
(* sendGossip or broadcastConnections call that issued it.                 *)
(***************************************************************************)
NoConn == [name |-> NoNode, neighbors |-> <<>>]
NoInner == [target |-> NoNode, type |-> ""]

NewRequest(nest, target, type, content, conn, inner, parent, exceptFor) ==
  [nest |-> nest, target |-> target, type |-> type, content |-> content,
   conn |-> conn, inner |-> inner, parent |-> parent, exceptFor |-> exceptFor,
   n |-> 0, sends |-> 0, timer |-> FALSE, done |-> FALSE, outcome |-> Pending,
   handled |-> FALSE]

\* attempt(n): one nest.send and one setTimeout.
attempt(r) == [r EXCEPT !.n = @ + 1, !.sends = @ + 1, !.timer = TRUE]

\* The timer callback of attempt r.n.
TimerNoDoneCheck(r) ==
  IF r.n < MaxAttempts THEN attempt(r)
  ELSE [r EXCEPT !.timer = FALSE, !.outcome = Settle(@, Timeout)]

TimerOneMore(r) ==
  IF r.done THEN [r EXCEPT !.timer = FALSE]
  ELSE IF r.n <= MaxAttempts THEN attempt(r)
  ELSE [r EXCEPT !.timer = FALSE, !.outcome = Settle(@, Timeout)]

Timer(r) ==
  IF r.done THEN [r EXCEPT !.timer = FALSE]
  ELSE IF r.n < MaxAttempts THEN attempt(r)
  ELSE [r EXCEPT !.timer = FALSE, !.outcome = Settle(@, Timeout)]

\* The completion callback handed to nest.send.
SendCallback(r, failed, value) ==
  [r EXCEPT !.done = TRUE,
            !.outcome = Settle(@, IF failed # "" THEN Rejected(failed)
                                  ELSE Resolved(value))]

\* Messages put on the net when request i goes from record old to record new:
\* the send of a new attempt, and, when the promise settles and a "route"
\* delivery waits for it, the answer to that delivery's sender.
Emitted(i, old, new) ==
  (IF new.sends > old.sends THEN OneMsg(ReqMsg(i)) ELSE EmptyBag)
  (+)
  (IF old.outcome.st = "pending" /\ new.outcome.st # "pending" /\ new.parent # 0
   THEN OneMsg(AnswerOf(new.parent, new.outcome)) ELSE EmptyBag)

(***************************************************************************)
(* Steps of the request engine, shared by every specification.             *)
(***************************************************************************)
\* The timer of request i's current attempt elapses.
TimerFire(i) ==
  /\ reqs[i].timer
  /\ LET new == Timer(reqs[i]) IN
       /\ reqs' = [reqs EXCEPT ![i] = new]
       /\ net' = Without(net, Overdue(net, i)) (+) Emitted(i, reqs[i], new)
  /\ lost' = lost + BagSize(net, Overdue(net, i))
  /\ lost' <= MaxLost
  /\ UNCHANGED <<neighbors, gossip, connections, call>>

\* The transport hands answer m to the completion callback of its request.
Callback(m) ==
  /\ m.kind = "rep"
  /\ LET i == m.req
         new == SendCallback(reqs[i], m.failed, m.value) IN
       /\ reqs' = [reqs EXCEPT ![i] = new]
       /\ net' = (net (-) OneMsg(m)) (+) Emitted(i, reqs[i], new)
  /\ UNCHANGED <<neighbors, gossip, connections, call, lost>>

\* The transport drops m, the answer of a handler that waited: the callback
\* is never invoked.  (The loss of a prompt message shows at the timer.)
Lose(m) ==
  /\ ~m.prompt
  /\ lost < MaxLost
  /\ net' = net (-) OneMsg(m)
  /\ lost' = lost + 1
  /\ UNCHANGED <<neighbors, gossip, connections, reqs, call>>

NoCall == [st |-> "none", err |-> "", req |-> 0, nest |-> NoNode, target |-> NoNode]

TwoNests == (1 :> <<2>>) @@ (2 :> <<1>>)

NoTables(nb) == [n \in DOMAIN nb |-> <<>>]

(***************************************************************************)
(* SpecReq: one request() call against a transport whose handler may       *)
(* answer with a value, answer with a failure, or never answer.            *)
(***************************************************************************)
InitReq ==
  /\ neighbors = TwoNests
  /\ gossip = NoTables(TwoNests)
  /\ connections = NoTables(TwoNests)
  /\ reqs = <<>>
  /\ net = EmptyBag
  /\ call = NoCall
  /\ lost = 0

\* request(nest, target, type, content) is called: attempt(1).
StartRequest ==
  /\ reqs = <<>>
  /\ \E content \in {"c1", "c2"} :
       LET fresh == NewRequest(1, 2, "any", content, NoConn, NoInner, 0, NoNode)
           new == attempt(fresh) IN
         /\ reqs' = <<new>>
         /\ net' = net (+) Emitted(1, fresh, new)
  /\ UNCHANGED <<neighbors, gossip, connections, call, lost>>

\* The target's handler runs on request message m and answers.
HandleAny(m) ==
  /\ m.kind = "req"
  /\ reqs[m.req].type = "any"
  /\ \E ans \in {RepMsg(m.req, "", "value", FALSE),
                   RepMsg(m.req, "Error", "", FALSE)} :
       net' = (net (-) OneMsg(m)) (+) OneMsg(ans)
  /\ reqs' = [reqs EXCEPT ![m.req].handled = TRUE]
  /\ UNCHANGED <<neighbors, gossip, connections, call, lost>>

NextReq ==
  \/ StartRequest
  \/ \E i \in 1..Len(reqs) : TimerFire(i)
  \/ \E m \in BagToSet(net) : HandleAny(m)
  \/ \E m \in BagToSet(net) : Callback(m)
  \/ \E m \in BagToSet(net) : Lose(m)

SpecReq == InitReq /\ [][NextReq]_vars

\* setTimeout always runs its callback once the period has elapsed.
FairSpecReq == SpecReq /\ WF_vars(\E i \in 1..Len(reqs) : TimerFire(i))

(***************************************************************************)
(* C1: a request whose sends never invoke the completion callback issues   *)
(* exactly 3 sends and then rejects with Timeout: there are never more     *)
(* than 3 sends, a Timeout never comes after fewer than 3, and as long as  *)
(* no callback is invoked the Timeout does come.                           *)
(***************************************************************************)
C1_RetryBound ==
  /\ [](\A i \in 1..Len(reqs) :
          /\ reqs[i].sends <= 3
          /\ (reqs[i].outcome = Timeout => reqs[i].sends = 3))
  /\ [](\A i \in 1..Len(reqs) :
          (~reqs[i].done /\ ~reqs[i].timer) =>
            (reqs[i].sends = 3 /\ reqs[i].outcome = Timeout))
  /\ ((reqs # <<>>) ~>
       (reqs # <<>> /\ (reqs[1].done \/ reqs[1].outcome = Timeout)))

C1_Witness ==
  /\ reqs # <<>>
  /\ ~reqs[1].done
  /\ reqs[1].sends = 3
  /\ reqs[1].outcome = Timeout
  /\ net = EmptyBag

(***************************************************************************)
(* C2: the outcome of a request is settled at most once: once it is        *)
(* rejected with Timeout or settled by a callback, no later callback and   *)
(* no later timer changes it.                                              *)
(***************************************************************************)
C2_SettledOnce ==
  [][\A i \in 1..Len(reqs) :
       reqs[i].outcome.st # "pending" => reqs'[i].outcome = reqs[i].outcome]_vars

\* A callback has arrived after the Timeout was declared.
C2_Witness ==
  /\ reqs # <<>>
  /\ reqs[1].outcome = Timeout
  /\ reqs[1].done

(***************************************************************************)
(* C3: once a completion callback of a request has been invoked, no        *)
(* further send is issued for it, and no timer rejects it with Timeout.    *)
(***************************************************************************)
C3_TerminalCancelsRetry ==
  [][\A i \in 1..Len(reqs) :
       reqs[i].done =>
         /\ reqs'[i].sends = reqs[i].sends
         /\ (reqs'[i].outcome = Timeout => reqs[i].outcome = Timeout)]_vars

\* A timer has fired after the callback of an early attempt and done nothing.
C3_Witness ==
  /\ reqs # <<>>
  /\ reqs[1].done
  /\ ~reqs[1].timer
  /\ reqs[1].sends < 3
  /\ reqs[1].outcome.st \in {"resolved", "rejected"}
  /\ reqs[1].outcome # Timeout

(***************************************************************************)
(* findRoute(from, to, connections).  A Map is a function whose domain is  *)
(* the set of its keys; null is NoNode.                                    *)
(***************************************************************************)
\* connections.get(at) || []
GetOrEmpty(table, at) == IF at \in DOMAIN table THEN table[at] ELSE <<>>

\* work.some(w => w.at == next)
InWork(work, next) == \E k \in 1..Len(work) : work[k].at = next

\* The inner loop over the neighbours of work[i], from the k-th one on.
RECURSIVE ScanNext(_, _, _, _, _)
ScanNext(list, k, via, to, work) ==
  IF k > Len(list) THEN [found |-> FALSE, via |-> NoNode, work |-> work]
  ELSE IF list[k] = to THEN [found |-> TRUE, via |-> via, work |-> work]
  ELSE IF ~InWork(work, list[k])
    THEN ScanNext(list, k + 1, via, to,
                  Append(work, [at |-> list[k],
                                via |-> IF via # NoNode THEN via ELSE list[k]]))
    ELSE ScanNext(list, k + 1, via, to, work)

\* The outer loop, from index i on (1-based).
RECURSIVE WorkLoop(_, _, _, _)
WorkLoop(work, i, to, table) ==
  IF i > Len(work) THEN NoNode
  ELSE LET s == ScanNext(GetOrEmpty(table, work[i].at), 1, work[i].via, to, work) IN
         IF s.found THEN s.via ELSE WorkLoop(s.work, i + 1, to, table)

findRoute(from, to, table) ==
  WorkLoop(<<[at |-> from, via |-> NoNode]>>, 1, to, table)

(***************************************************************************)
(* SpecRoute: findRoute applied to every table over RouteNodes names in    *)
(* which an entry is absent or lists up to MaxDeg distinct names.          *)
(***************************************************************************)
RouteNodes == 3
MaxDeg == 2

RouteNames == 1..RouteNodes

Lists(names, len) ==
  {s \in UNION {[1..l -> names] : l \in 0..len} :
     \A a, b \in DOMAIN s : a # b => s[a] # s[b]}

Tables(names, len) ==
  UNION {[keys -> Lists(names, len)] : keys \in SUBSET names}

InitRoute ==
  /\ neighbors = TwoNests
  /\ gossip = NoTables(TwoNests)
  /\ \E t \in Tables(RouteNames, MaxDeg) : connections = t
  /\ reqs = <<>>
  /\ net = EmptyBag
  /\ \E from, to \in RouteNames :
       call = [st |-> "args", from |-> from, to |-> to, via |-> NoNode]
  /\ lost = 0

CallFindRoute ==
  /\ call.st = "args"
  /\ call' = [call EXCEPT !.st = "returned",
                          !.via = findRoute(call.from, call.to, connections)]
  /\ UNCHANGED <<neighbors, gossip, connections, reqs, net, lost>>

NextRoute == CallFindRoute

SpecRoute == InitRoute /\ [][NextRoute]_vars

\* Names within k hops of a, following table entries.
RECURSIVE Within(_, _, _)
Within(table, a, k) ==
  IF k = 0 THEN {a}
  ELSE LET w == Within(table, a, k - 1) IN
         w \cup UNION {Range(GetOrEmpty(table, x)) : x \in w}

AllNames(table) ==
  DOMAIN table \cup UNION {Range(table[x]) : x \in DOMAIN table}

Reachable(table, a, b) == b \in Within(table, a, Cardinality(AllNames(table)) + 1)

\* Hop count of a shortest path from a to b (b reachable from a).
Dist(table, a, b) ==
  CHOOSE k \in 0..(Cardinality(AllNames(table)) + 1) :
    /\ b \in Within(table, a, k)
    /\ \A j \in 0..(k - 1) : b \notin Within(table, a, j)

\* hop begins a shortest path from a to b.
FirstHopOfShortest(table, a, b, hop) ==
  /\ Includes(GetOrEmpty(table, a), hop)
  /\ Reachable(table, hop, b)
  /\ Dist(table, hop, b) = Dist(table, a, b) - 1

(***************************************************************************)
(* C8: for from # to, findRoute returns a direct neighbour of from that    *)
(* begins a minimum-hop path to to when to is reachable (to itself when    *)
(* to is a direct neighbour of from), and null when it is not reachable.   *)
(***************************************************************************)
C8_ShortestFirstHop ==
  (call.st = "returned" /\ call.from # call.to) =>
    IF Reachable(connections, call.from, call.to)
    THEN FirstHopOfShortest(connections, call.from, call.to, call.via)
    ELSE call.via = NoNode

\* What the code does: the claim with targets one hop away set apart, for
\* which findRoute returns null although a route exists.
C8_AsCoded ==
  (call.st = "returned" /\ call.from # call.to) =>
    IF ~Reachable(connections, call.from, call.to) THEN call.via = NoNode
    ELSE IF Includes(GetOrEmpty(connections, call.from), call.to)
      THEN call.via = NoNode
      ELSE FirstHopOfShortest(connections, call.from, call.to, call.via)

(***************************************************************************)
(* Issuing one request per listed target, in order (the for loops of       *)
(* sendGossip and broadcastConnections): the new records and their first   *)
(* sends.                                                                  *)
(***************************************************************************)
NewRequests(nest, targets, type, content, conn, exceptFor) ==
  [k \in 1..Len(targets) |->
     attempt(NewRequest(nest, targets[k], type, content, conn, NoInner, 0, exceptFor))]

FirstSends(base, count) == SetToBag({ReqMsg(base + k) : k \in 1..count})

(***************************************************************************)
(* sendGossip(nest, message, exceptFor) on the state <<g, rs, nt>>.        *)
(***************************************************************************)
sendGossipToSender(g, rs, nt, nest, message, exceptFor) ==
  LET targets == SelectSeq(neighbors[nest], LAMBDA x : x = exceptFor) IN
    [gossip |-> [g EXCEPT ![nest] = Append(@, message)],
     reqs |-> rs \o NewRequests(nest, targets, "gossip", message, NoConn, exceptFor),
     net |-> nt (+) FirstSends(Len(rs), Len(targets))]

sendGossip(g, rs, nt, nest, message, exceptFor) ==
  LET targets == Filter(neighbors[nest], exceptFor) IN
    [gossip |-> [g EXCEPT ![nest] = Append(@, message)],
     reqs |-> rs \o NewRequests(nest, targets, "gossip", message, NoConn, exceptFor),
     net |-> nt (+) FirstSends(Len(rs), Len(targets))]

\* The "gossip" handler at nest, on message from source.
gossipHandlerNoCheck(g, rs, nt, nest, message, source) ==
  sendGossip(g, rs, nt, nest, message, source)

gossipHandler(g, rs, nt, nest, message, source) ==
  IF Includes(g[nest], message) THEN [gossip |-> g, reqs |-> rs, net |-> nt]
  ELSE sendGossip(g, rs, nt, nest, message, source)

(***************************************************************************)
(* SpecGossip: sendGossip calls and the flood they start, on a line and    *)
(* on a triangle of three nests.  call is the list of the sendGossip       *)
(* calls the application has made.                                         *)
(***************************************************************************)
MaxCalls == 1

Line3 == <<<<2>>, <<1, 3>>, <<2>>>>
Triangle == <<<<2, 3>>, <<1, 3>>, <<1, 2>>>>

Msgs == {"m1", "m2"}

InitGossip ==
  /\ neighbors \in {Line3, Triangle}
  /\ gossip = [n \in 1..3 |-> <<>>]
  /\ connections = [n \in 1..3 |-> <<>>]
  /\ reqs = <<>>
  /\ net = EmptyBag
  /\ call = <<>>
  /\ lost = 0

\* The application calls sendGossip(nest, message).
CallSendGossip(nest, message) ==
  /\ Len(call) < MaxCalls
  /\ Len(reqs) + Len(neighbors[nest]) <= MaxReqs
  /\ LET s == sendGossip(gossip, reqs, net, nest, message, NoNode) IN
       /\ gossip' = s.gossip
       /\ reqs' = s.reqs
       /\ net' = s.net
  /\ call' = Append(call, [nest |-> nest, message |-> message])
  /\ UNCHANGED <<neighbors, connections, lost>>

\* The transport delivers request message m to the "gossip" handler of its
\* target; requestType's wrapper answers with the handler's (undefined) result.
HandleGossip(m) ==
  /\ m.kind = "req"
  /\ reqs[m.req].type = "gossip"
  /\ LET r == reqs[m.req]
         s == gossipHandler(gossip, [reqs EXCEPT ![m.req].handled = TRUE],
                            (net (-) OneMsg(m)) (+) OneMsg(RepMsg(m.req, "", "", TRUE)),
                            r.target, r.content, r.nest) IN
       /\ Len(s.reqs) <= MaxReqs
       /\ gossip' = s.gossip
       /\ reqs' = s.reqs
       /\ net' = s.net
  /\ UNCHANGED <<neighbors, connections, call, lost>>

NextGossip ==
  \/ \E nest \in Nodes, message \in Msgs : CallSendGossip(nest, message)
  \/ \E i \in 1..Len(reqs) : TimerFire(i)
  \/ \E m \in BagToSet(net) : HandleGossip(m)
  \/ \E m \in BagToSet(net) : Callback(m)

SpecGossip == InitGossip /\ [][NextGossip]_vars

(***************************************************************************)
(* The topology tables.  A Map is a function whose domain is its set of    *)
(* keys; get() of a missing key is undefined.                              *)
(***************************************************************************)
Undefined == [def |-> FALSE, val |-> <<>>]
Defined(list) == [def |-> TRUE, val |-> list]

MapGet(table, name) ==
  IF name \in DOMAIN table THEN Defined(table[name]) ELSE Undefined

MapSet(table, name, list) ==
  [k \in DOMAIN table \cup {name} |-> IF k = name THEN list ELSE table[k]]

\* JSON.stringify of an array of names, as its sequence of tokens; of
\* undefined it is undefined, which equals no string.
RECURSIVE JoinNames(_, _)
JoinNames(list, k) ==
  IF k > Len(list) THEN <<>>
  ELSE (IF k > 1 THEN <<",">> ELSE <<>>) \o <<ToString(list[k])>>
       \o JoinNames(list, k + 1)

stringify(x) ==
  IF x.def THEN <<"[">> \o JoinNames(x.val, 1) \o <<"]">> ELSE <<"undefined">>

\* JSON.stringify(connections.get(name)) == JSON.stringify(neighbors)
sameListByIdentity(table, name, list) == FALSE

sameList(table, name, list) ==
  stringify(MapGet(table, name)) = stringify(Defined(list))

(***************************************************************************)
(* broadcastConnections(nest, name, exceptFor) on the state <<c, rs, nt>>. *)
(***************************************************************************)
broadcastConnections(c, rs, nt, nest, name, exceptFor) ==
  LET targets == Filter(neighbors[nest], exceptFor)
      conn == [name |-> name, neighbors |-> c[nest][name]] IN
    [connections |-> c,
     reqs |-> rs \o NewRequests(nest, targets, "connections", "", conn, exceptFor),
     net |-> nt (+) FirstSends(Len(rs), Len(targets))]

\* The "connections" handler at nest, on {name, neighbors} from source.
connectionsHandlerNoBroadcast(c, rs, nt, nest, conn, source) ==
  IF sameList(c[nest], conn.name, conn.neighbors)
  THEN [connections |-> c, reqs |-> rs, net |-> nt]
  ELSE [connections |-> [c EXCEPT ![nest] = MapSet(@, conn.name, conn.neighbors)],
        reqs |-> rs, net |-> nt]

connectionsHandlerSetsOwn(c, rs, nt, nest, conn, source) ==
  IF sameList(c[nest], conn.name, conn.neighbors)
  THEN [connections |-> c, reqs |-> rs, net |-> nt]
  ELSE broadcastConnections(
         [c EXCEPT ![nest] = MapSet(@, nest, conn.neighbors)],
         rs, nt, nest, nest, source)

connectionsHandlerAlwaysBroadcasts(c, rs, nt, nest, conn, source) ==
  broadcastConnections(
    [c EXCEPT ![nest] = MapSet(@, conn.name, conn.neighbors)],
    rs, nt, nest, conn.name, source)

connectionsHandler(c, rs, nt, nest, conn, source) ==
  IF sameList(c[nest], conn.name, conn.neighbors)
  THEN [connections |-> c, reqs |-> rs, net |-> nt]
  ELSE broadcastConnections(
         [c EXCEPT ![nest] = MapSet(@, conn.name, conn.neighbors)],
         rs, nt, nest, conn.name, source)

\* everywhere(nest => {...}): every nest in turn makes its Map, sets its own
\* entry and broadcasts it, before any message is delivered.
RECURSIVE Startup(_, _)
Startup(n, st) ==
  IF n > Len(neighbors) THEN st
  ELSE Startup(n + 1,
         broadcastConnections(
           [st.connections EXCEPT ![n] = MapSet(<<>>, n, neighbors[n])],
           st.reqs, st.net, n, n, NoNode))

AfterStartup ==
  Startup(1, [connections |-> [n \in Nodes |-> <<>>],
              reqs |-> <<>>, net |-> EmptyBag])

(***************************************************************************)
(* SpecTopo: the flood of connections that the startup of every nest       *)
(* begins, in a static network.                                            *)
(***************************************************************************)
MaxTopoReqs == 6

InitTopo ==
  /\ neighbors \in {TwoNests, Line3}
  /\ gossip = [n \in DOMAIN neighbors |-> <<>>]
  /\ connections = AfterStartup.connections
  /\ reqs = AfterStartup.reqs
  /\ net = AfterStartup.net
  /\ call = <<>>
  /\ lost = 0

\* The transport delivers request message m to the "connections" handler of
\* its target; requestType's wrapper answers with the (undefined) result.
DeliverConnections(m, max) ==
  /\ m.kind = "req"
  /\ reqs[m.req].type = "connections"
  /\ LET r == reqs[m.req]
         s == connectionsHandler(connections,
                                 [reqs EXCEPT ![m.req].handled = TRUE],
                                 (net (-) OneMsg(m)) (+) OneMsg(RepMsg(m.req, "", "", TRUE)),
                                 r.target, r.conn, r.nest) IN
       /\ Len(s.reqs) <= max
       /\ connections' = s.connections
       /\ reqs' = s.reqs
       /\ net' = s.net
  /\ UNCHANGED <<neighbors, gossip, call, lost>>

HandleConnections(m) == DeliverConnections(m, MaxTopoReqs)

NextTopo ==
  \/ \E i \in 1..Len(reqs) : TimerFire(i)
  \/ \E m \in BagToSet(net) : HandleConnections(m)
  \/ \E m \in BagToSet(net) : Callback(m)

SpecTopo == InitTopo /\ [][NextTopo]_vars

(***************************************************************************)
(* SpecConn: the "connections" handler of a started nest, handed whatever  *)
(* a neighbour may send: any name with any list of up to two names.  call  *)
(* is the list of the deliveries made.                                     *)
(***************************************************************************)
MaxDeliveries == 2

InitConn ==
  /\ neighbors \in {Line3, Triangle}
  /\ gossip = [n \in DOMAIN neighbors |-> <<>>]
  /\ connections = AfterStartup.connections
  /\ reqs = AfterStartup.reqs
  /\ net = AfterStartup.net
  /\ call = <<>>
  /\ lost = 0

ReceiveConnections(nest, conn, source) ==
  /\ Len(call) < MaxDeliveries
  /\ LET s == connectionsHandler(connections, reqs, net, nest, conn, source) IN
       /\ connections' = s.connections
       /\ reqs' = s.reqs
       /\ net' = s.net
  /\ call' = Append(call, [nest |-> nest, conn |-> conn, source |-> source])
  /\ UNCHANGED <<neighbors, gossip, lost>>

NextConn ==
  \E nest \in Nodes, name \in Nodes, list \in Lists(Nodes, 2) :
    \E source \in Range(neighbors[nest]) :
      ReceiveConnections(nest, [name |-> name, neighbors |-> list], source)

SpecConn == InitConn /\ [][NextConn]_vars

\* Nests reachable from n over neighbour links.
ReachableFrom(n) == Within(neighbors, n, Cardinality(Nodes))

(***************************************************************************)
(* routeRequest(nest, target, type, content) on the state <<rs, nt>>:      *)
(* either it throws (thrown is TRUE and err the error), or it returns the  *)
(* promise of the request it has just issued (the last of reqs).  parent   *)
(* is the "route" request whose handler made the call (0: the              *)
(* application made it).                                                   *)
(***************************************************************************)
Issue(rs, nt, r) ==
  [thrown |-> FALSE, err |-> "",
   reqs |-> Append(rs, attempt(r)),
   net |-> nt (+) OneMsg(ReqMsg(Len(rs) + 1))]

routeRequestNoThrow(rs, nt, nest, target, type, content, parent) ==
  IF Includes(neighbors[nest], target)
  THEN Issue(rs, nt, NewRequest(nest, target, type, content, NoConn, NoInner,
                                parent, NoNode))
  ELSE LET via == findRoute(nest, target, connections[nest]) IN
         Issue(rs, nt, NewRequest(nest, IF via = NoNode THEN target ELSE via,
                                  "route", content, NoConn,
                                  [target |-> target, type |-> type],
                                  parent, NoNode))

routeRequestAlwaysFinds(rs, nt, nest, target, type, content, parent) ==
  LET via == findRoute(nest, target, connections[nest]) IN
    IF via = NoNode
    THEN [thrown |-> TRUE, err |-> NoRoute, reqs |-> rs, net |-> nt]
    ELSE Issue(rs, nt, NewRequest(nest, via, "route", content, NoConn,
                                  [target |-> target, type |-> type],
                                  parent, NoNode))

routeRequest(rs, nt, nest, target, type, content, parent) ==
  IF Includes(neighbors[nest], target)
  THEN Issue(rs, nt, NewRequest(nest, target, type, content, NoConn, NoInner,
                                parent, NoNode))
  ELSE LET via == findRoute(nest, target, connections[nest]) IN
         IF via = NoNode
         THEN [thrown |-> TRUE, err |-> NoRoute, reqs |-> rs, net |-> nt]
         ELSE Issue(rs, nt, NewRequest(nest, via, "route", content, NoConn,
                                       [target |-> target, type |-> type],
                                       parent, NoNode))

(***************************************************************************)
(* SpecRelay: one routeRequest(nest, target, "ping", null) call of the     *)
(* application, with the topology flood over.  The tables are settled on   *)
(* the line of four and on two separate pairs; on the house (a square      *)
(* 1-2-3-5 with nest 4 hanging from 3) nest 2 has not got the entry of     *)
(* nest 3: neither the broadcast of 3 nor what 1 sent on has reached it.   *)
(***************************************************************************)
MaxRelayReqs == 4

Line4 == <<<<2>>, <<1, 3>>, <<2, 4>>, <<3>>>>
TwoPairs == <<<<2>>, <<1>>, <<4>>, <<3>>>>
House == <<<<2, 5>>, <<1, 3>>, <<2, 4, 5>>, <<3>>, <<1, 3>>>>

\* Every nest holds the entry of every nest that can reach it.
Settled == [n \in Nodes |-> [x \in ReachableFrom(n) |-> neighbors[x]]]

\* The table without the entry of name.
MapDelete(table, name) == [k \in (DOMAIN table) \ {name} |-> table[k]]

InitRelay ==
  /\ neighbors \in {Line4, TwoPairs, House}
  /\ gossip = [n \in DOMAIN neighbors |-> <<>>]
  /\ connections = IF neighbors = House
                   THEN [Settled EXCEPT ![2] = MapDelete(@, 3)]
                   ELSE Settled
  /\ reqs = <<>>
  /\ net = EmptyBag
  /\ call = NoCall
  /\ lost = 0

\* The application calls routeRequest(nest, target, "ping", null).
CallRouteRequest(nest, target) ==
  /\ call.st = "none"
  /\ LET s == routeRequest(reqs, net, nest, target, "ping", "", 0) IN
       /\ reqs' = s.reqs
       /\ net' = s.net
       /\ call' = [st |-> IF s.thrown THEN "thrown" ELSE "promise",
                   err |-> s.err,
                   req |-> IF s.thrown THEN 0 ELSE Len(s.reqs),
                   nest |-> nest, target |-> target]
  /\ UNCHANGED <<neighbors, gossip, connections, lost>>

\* The transport delivers request message m to the "route" handler of its
\* target, which calls routeRequest; requestType's wrapper answers with the
\* error when the call throws, and otherwise waits for the promise.
HandleRoute(m) ==
  /\ m.kind = "req"
  /\ reqs[m.req].type = "route"
  /\ LET r == reqs[m.req]
         s == routeRequest([reqs EXCEPT ![m.req].handled = TRUE],
                           net (-) OneMsg(m),
                           r.target, r.inner.target, r.inner.type, r.content,
                           m.req) IN
       /\ Len(s.reqs) <= MaxRelayReqs
       /\ reqs' = s.reqs
       /\ net' = IF s.thrown
                 THEN s.net (+) OneMsg(RepMsg(m.req, s.err, "", TRUE))
                 ELSE s.net
  /\ UNCHANGED <<neighbors, gossip, connections, call, lost>>

\* requestType("ping", () => "pong")
HandlePing(m) ==
  /\ m.kind = "req"
  /\ reqs[m.req].type = "ping"
  /\ reqs' = [reqs EXCEPT ![m.req].handled = TRUE]
  /\ net' = (net (-) OneMsg(m)) (+) OneMsg(RepMsg(m.req, "", "pong", TRUE))
  /\ UNCHANGED <<neighbors, gossip, connections, call, lost>>

NextRelay ==
  \/ \E nest, target \in Nodes : nest # target /\ CallRouteRequest(nest, target)
  \/ \E i \in 1..Len(reqs) : TimerFire(i)
  \/ \E m \in BagToSet(net) : HandleRoute(m)
  \/ \E m \in BagToSet(net) : HandlePing(m)
  \/ \E m \in BagToSet(net) : Callback(m)
  \/ \E m \in BagToSet(net) : Lose(m)

SpecRelay == InitRelay /\ [][NextRelay]_vars

(***************************************************************************)
(* C4 and C5 speak of the gossip flood.                                    *)
(***************************************************************************)
\* The sendGossip calls the application has made with message.
CallsOf(message) == {k \in 1..Len(call) : call[k].message = message}

\* Request i is over and none of its sends reached the target's handler.
Undelivered(i) == ~reqs[i].handled /\ reqs[i].outcome = Timeout

\* The requests the "gossip" handler of nest issued for message.
Forwards(nest, message) ==
  {i \in 1..Len(reqs) : /\ reqs[i].type = "gossip"
                        /\ reqs[i].nest = nest
                        /\ reqs[i].content = message
                        /\ reqs[i].exceptFor # NoNode}

\* Nothing is in flight and no timer is pending: nothing more will happen.
Quiet == net = EmptyBag /\ \A i \in 1..Len(reqs) : ~reqs[i].timer

(***************************************************************************)
(* C4, as claimed: after sendGossip(nest, M), every nest reachable from    *)
(* nest ends up with M in its seen-set, exactly once.  (Every step of the  *)
(* flood uses up a message, a timer or one of a request's three attempts,  *)
(* so "eventually" is "when the flood has run out".)                       *)
(***************************************************************************)
C4_EverywhereOnce ==
  \A k \in 1..Len(call) :
    (Quiet /\ Cardinality(CallsOf(call[k].message)) = 1) =>
      \A n \in ReachableFrom(call[k].nest) :
        Count(gossip[n], call[k].message) = 1

(***************************************************************************)
(* C4, amended: after one sendGossip(nest, M) call no nest ever has M more *)
(* than once, and when the flood has run out every nest reachable from     *)
(* nest has M exactly once, unless some gossip request for M has timed out *)
(* with none of its three sends delivered.                                 *)
(***************************************************************************)
C4_EverywhereUnlessUndelivered ==
  \A k \in 1..Len(call) :
    Cardinality(CallsOf(call[k].message)) = 1 =>
      /\ \A n \in Nodes : Count(gossip[n], call[k].message) <= 1
      /\ Quiet =>
           \/ \A n \in ReachableFrom(call[k].nest) :
                Count(gossip[n], call[k].message) = 1
           \/ \E i \in 1..Len(reqs) :
                reqs[i].content = call[k].message /\ Undelivered(i)

\* The flood has crossed the triangle: every nest has the message once, and
\* a retry was needed on the way.
C4_Witness ==
  /\ neighbors = Triangle
  /\ Len(call) = 1
  /\ \A n \in Nodes : Count(gossip[n], call[1].message) = 1
  /\ \E i \in 1..Len(reqs) : reqs[i].sends > 1 /\ reqs[i].handled
  /\ Len(reqs) = 4
  /\ Quiet

(***************************************************************************)
(* C5: the "gossip" handler of a nest that already has M changes nothing   *)
(* and issues no request; so a nest records and forwards M through its     *)
(* handler at most once, and that forwarding is one request to each        *)
(* neighbour other than the sender and none to the sender.                 *)
(***************************************************************************)
C5_DuplicateSuppression ==
  /\ [][\A m \in DOMAIN net :
          (/\ HandleGossip(m)
           /\ Includes(gossip[reqs[m.req].target], reqs[m.req].content)) =>
            /\ gossip' = gossip
            /\ Len(reqs') = Len(reqs)
            /\ \A x \in DOMAIN net' :
                 x.kind = "req" => (x \in DOMAIN net /\ net'[x] <= net[x])]_vars
  /\ [][\A n \in Nodes : \A message \in Msgs :
          (Includes(gossip[n], message) /\ call' = call) =>
            /\ Count(gossip'[n], message) = Count(gossip[n], message)
            /\ Forwards(n, message)' = Forwards(n, message)]_vars
  /\ [](\A n \in Nodes : \A message \in Msgs :
          /\ Count(gossip[n], message)
               <= Cardinality({k \in CallsOf(message) : call[k].nest = n}) + 1
          /\ \A i, j \in Forwards(n, message) :
               /\ reqs[i].exceptFor = reqs[j].exceptFor
               /\ reqs[i].target # reqs[i].exceptFor
               /\ (i # j => reqs[i].target # reqs[j].target)
          /\ Forwards(n, message) # {} =>
               \A t \in Range(neighbors[n]) :
                 \/ \E i \in Forwards(n, message) : reqs[i].target = t
                 \/ \A i \in Forwards(n, message) : reqs[i].exceptFor = t)

\* Nest 3 of the triangle has been handed the message by both neighbours and
\* has recorded and forwarded it once.
C5_Witness ==
  /\ neighbors = Triangle
  /\ \E i, j \in 1..Len(reqs) :
       /\ i # j
       /\ reqs[i].target = 3 /\ reqs[j].target = 3
       /\ reqs[i].content = reqs[j].content
       /\ reqs[i].handled /\ reqs[j].handled
       /\ Count(gossip[3], reqs[i].content) = 1
       /\ Cardinality(Forwards(3, reqs[i].content)) = 1

(***************************************************************************)
(* C6 speaks of the state the topology flood ends in.                      *)
(***************************************************************************)
\* Every nest holds what every nest reachable from it holds, with an entry
\* for each of them.
Converged ==
  \A n \in Nodes :
    /\ ReachableFrom(n) \subseteq DOMAIN connections[n]
    /\ \A x \in ReachableFrom(n) : connections[x] = connections[n]

(***************************************************************************)
(* C6, as claimed: in a static network, after the startup announce of      *)
(* every nest, the nests end up with tables of the same content holding    *)
(* an entry for each reachable nest.  (The flood is finite: "eventually"   *)
(* is "when nothing is in flight and no timer is pending".)                *)
(***************************************************************************)
C6_Converges == Quiet => Converged

(***************************************************************************)
(* C6, amended: when the flood has run out the tables have converged,      *)
(* unless some "connections" request has timed out with none of its three  *)
(* sends delivered.                                                        *)
(***************************************************************************)
C6_ConvergesUnlessUndelivered ==
  Quiet => (Converged \/ \E i \in 1..Len(reqs) : Undelivered(i))

\* The line of three has converged although messages were dropped and a
\* request had to be sent again.
C6_Witness ==
  /\ neighbors = Line3
  /\ Quiet
  /\ Converged
  /\ lost > 0
  /\ Len(reqs) = 6
  /\ \E i \in 1..Len(reqs) : reqs[i].sends > 1

(***************************************************************************)
(* C7: a "connections" message whose list equals, name for name and in     *)
(* the same order, the entry the nest has for that name changes nothing    *)
(* and sends nothing; any other list replaces the entry and is sent on, in *)
(* one "connections" request for that name to every neighbour but the      *)
(* sender.                                                                 *)
(***************************************************************************)
C7_IdempotentUpdate ==
  [][Len(call') > Len(call) =>
       LET d == call'[Len(call')]
           targets == Filter(neighbors[d.nest], d.source) IN
         IF /\ d.conn.name \in DOMAIN connections[d.nest]
            /\ connections[d.nest][d.conn.name] = d.conn.neighbors
         THEN connections' = connections /\ reqs' = reqs /\ net' = net
         ELSE /\ connections' =
                   [connections EXCEPT ![d.nest] =
                      MapSet(@, d.conn.name, d.conn.neighbors)]
              /\ Len(reqs') = Len(reqs) + Len(targets)
              /\ \A k \in 1..Len(reqs) : reqs'[k] = reqs[k]
              /\ \A k \in 1..Len(targets) :
                   LET r == reqs'[Len(reqs) + k] IN
                     /\ r.nest = d.nest /\ r.target = targets[k]
                     /\ r.type = "connections" /\ r.conn = d.conn
                     /\ r.sends = 1
                     /\ CopiesIn(ReqMsg(Len(reqs) + k), net') = 1
              /\ BagCardinality(net') = BagCardinality(net) + Len(targets)]_vars

\* A list with the names of the nest's entry in another order has replaced
\* the entry and has been sent on; the same list delivered again has not.
C7_Witness ==
  /\ Len(call) = 2
  /\ call[1] = call[2]
  /\ call[1].conn.name = 2
  /\ call[1].conn.neighbors = <<3, 1>>
  /\ call[1].nest = 2
  /\ neighbors[2] = <<1, 3>>
  /\ connections[2][2] = <<3, 1>>
  /\ Len(reqs) = Len(AfterStartup.reqs) + 1


(***************************************************************************)
(* C9 and C10 speak of routeRequest and the "route" handler.               *)
(***************************************************************************)
\* target is no neighbour of nest and nest's table yields no next hop to it.
NoWay(nest, target) ==
  /\ ~Includes(neighbors[nest], target)
  /\ findRoute(nest, target, connections[nest]) = NoNode

\* The requests issued by the handler of "route" request i.
Children(i) == {j \in 1..Len(reqs) : reqs[j].parent = i}

\* C9: routeRequest to a target that is no neighbour and to which findRoute
\* gives no next hop fails with NoRoute and sends nothing: the application's
\* call throws NoRoute and issues no request, and it throws in no other
\* case; a "route" request whose relay has no way on gets no request issued
\* for it, every answer to it is the failure NoRoute, and it settles in no
\* other way than as rejected with NoRoute (or with Timeout, when no answer
\* comes).
C9_NoRouteFails ==
  /\ call.st # "none" =>
       (NoWay(call.nest, call.target) <=> call.st = "thrown")
  /\ call.st = "thrown" =>
       /\ call.err = NoRoute
       /\ reqs = <<>>
       /\ net = EmptyBag
  /\ \A i \in 1..Len(reqs) :
       (reqs[i].type = "route" /\ NoWay(reqs[i].target, reqs[i].inner.target)) =>
         /\ Children(i) = {}
         /\ \A m \in DOMAIN net :
              (m.req = i /\ m.kind = "rep") => (m.failed = NoRoute /\ m.prompt)
         /\ reqs[i].outcome \in {Pending, Rejected(NoRoute), Timeout}
         /\ reqs[i].done => reqs[i].handled

\* On the house nest 1 asks for nest 4 through nest 2, whose table lacks the
\* entry of nest 3: the failure of nest 2's routeRequest comes back as the
\* rejection of nest 1's promise.
C9_Witness ==
  /\ neighbors = House
  /\ call.st = "promise"
  /\ call.nest = 1
  /\ call.target = 4
  /\ reqs[call.req].type = "route"
  /\ reqs[call.req].target = 2
  /\ reqs[call.req].handled
  /\ reqs[call.req].outcome = Rejected(NoRoute)

\* The application's own call throws: the target is in another component.
C9_OriginThrows ==
  /\ neighbors = TwoPairs
  /\ call.st = "thrown"
  /\ call.nest = 1
  /\ call.target = 3

\* C10: with settled tables a routeRequest(target, "ping") goes hop by hop
\* along a shortest path: every "route" request goes to a neighbour one hop
\* nearer to the target and is issued by the application or by the relay the
\* request before it reached, the "ping" itself goes from a neighbour of the
\* target to the target; the promise resolves with nothing but "pong", and once
\* every send has completed (no message in flight, no timer pending, no
\* request timed out) it has resolved with "pong".
C10_MultiHopDelivery ==
  (call.st = "promise" /\ connections = Settled) =>
    /\ \A i \in 1..Len(reqs) :
         LET r == reqs[i] IN
           /\ Includes(neighbors[r.nest], r.target)
           /\ r.parent = 0 <=> i = call.req
           /\ r.parent = 0 => r.nest = call.nest
           /\ r.parent # 0 => /\ reqs[r.parent].type = "route"
                              /\ reqs[r.parent].target = r.nest
           /\ r.type = "route" =>
                /\ r.inner = [target |-> call.target, type |-> "ping"]
                /\ Dist(neighbors, r.nest, call.target) > 1
                /\ Dist(neighbors, r.target, call.target)
                     = Dist(neighbors, r.nest, call.target) - 1
           /\ r.type # "route" =>
                /\ r.type = "ping"
                /\ r.target = call.target
    /\ reqs[call.req].outcome.st = "resolved" =>
         reqs[call.req].outcome = Resolved("pong")
    /\ (Quiet /\ \A i \in 1..Len(reqs) : reqs[i].outcome # Timeout) =>
         reqs[call.req].outcome = Resolved("pong")

\* Nest 1 pings nest 4 on the line: the request went 1 -> 2 -> 3 -> 4, one
\* of the sends had to be repeated, and the promise resolved with "pong".
C10_Witness ==
  /\ neighbors = Line4
  /\ call.st = "promise"
  /\ call.nest = 1
  /\ call.target = 4
  /\ Len(reqs) >= 3
  /\ reqs[1].nest = 1 /\ reqs[1].target = 2 /\ reqs[1].type = "route"
  /\ reqs[2].nest = 2 /\ reqs[2].target = 3 /\ reqs[2].type = "route"
  /\ reqs[3].nest = 3 /\ reqs[3].target = 4 /\ reqs[3].type = "ping"
  /\ \E i \in 1..Len(reqs) : reqs[i].sends > 1
  /\ Quiet
  /\ reqs[1].outcome = Resolved("pong")


(***************************************************************************)
(* Promise_all(promises), src/promiseAll.js.  call holds the input         *)
(* promises, the closure of the executor (results, remaining), the promise *)
(* returned and the queue of promise reactions still to run.  order lists  *)
(* the inputs in the order in which they rejected, early the inputs that   *)
(* had rejected when Promise_all was called, settles counts the calls of   *)
(* resolve and reject.                                                     *)
(***************************************************************************)
MaxInputs == 3

Vals == <<"v1", "v2", "v3", "v4">>
Errs == <<"e1", "e2", "e3", "e4">>
Empty == "empty"

Job(i, kind) == [i |-> i, kind |-> kind]

\* The reactions that the loop's promises[i].then(...) registers on inputs
\* already settled, in the order of the loop.
RECURSIVE ThenJobs(_, _)
ThenJobs(promises, i) ==
  IF i > Len(promises) THEN <<>>
  ELSE (IF promises[i].st = "pending" THEN <<>> ELSE <<Job(i, "then")>>)
       \o ThenJobs(promises, i + 1)

\* The executor of the promise that Promise_all returns.
Promise_all(c) ==
  [c EXCEPT !.called = TRUE,
            !.results = <<>>,
            !.remaining = Len(c.promises),
            !.outcome = IF Len(c.promises) = 0 THEN Settle(@, Resolved(<<>>)) ELSE @,
            !.settles = IF Len(c.promises) = 0 THEN @ + 1 ELSE @,
            !.jobs = IF Len(c.promises) = 0 THEN <<>> ELSE ThenJobs(c.promises, 1),
            !.early = {i \in 1..Len(c.promises) : c.promises[i].st = "rejected"}]

\* results[i] = result on a JavaScript array: the array grows to reach i.
SetAt(results, i, result) ==
  [k \in 1..(IF i > Len(results) THEN i ELSE Len(results)) |->
     IF k = i THEN result
     ELSE IF k <= Len(results) THEN results[k] ELSE Empty]

onResolvedPush(c, i, result) ==
  LET res == Append(c.results, result) IN
    [c EXCEPT !.results = res,
              !.remaining = @ - 1,
              !.outcome = IF c.remaining = 1 THEN Settle(@, Resolved(res)) ELSE @,
              !.settles = IF c.remaining = 1 THEN @ + 1 ELSE @]

\* (result) => { results[i] = result; remaining--; if (remaining === 0) ... }
onResolved(c, i, result) ==
  LET res == SetAt(c.results, i, result) IN
    [c EXCEPT !.results = res,
              !.remaining = @ - 1,
              !.outcome = IF c.remaining = 1 THEN Settle(@, Resolved(res)) ELSE @,
              !.settles = IF c.remaining = 1 THEN @ + 1 ELSE @]

\* (error) => { reject(error); }
onRejected(c, error) ==
  [c EXCEPT !.outcome = Settle(@, Rejected(error)), !.settles = @ + 1]

InitAll ==
  /\ neighbors = TwoNests
  /\ gossip = NoTables(TwoNests)
  /\ connections = NoTables(TwoNests)
  /\ reqs = <<>>
  /\ net = EmptyBag
  /\ lost = 0
  /\ \E n \in 0..MaxInputs :
       call = [promises |-> [i \in 1..n |-> Pending], order |-> <<>>,
               early |-> {}, called |-> FALSE, results |-> <<>>,
               remaining |-> 0, outcome |-> Pending, settles |-> 0,
               jobs |-> <<>>]

\* Input promise i settles; once Promise_all has run, its reaction is queued.
SettleInput(i, outcome) ==
  /\ call.promises[i].st = "pending"
  /\ call' = [call EXCEPT
       !.promises[i] = outcome,
       !.order = IF outcome.st = "rejected" THEN Append(@, i) ELSE @,
       !.jobs = IF call.called THEN Append(@, Job(i, "then")) ELSE @]
  /\ UNCHANGED <<neighbors, gossip, connections, reqs, net, lost>>

\* The application calls Promise_all(promises).
CallPromise_all ==
  /\ ~call.called
  /\ call' = Promise_all(call)
  /\ UNCHANGED <<neighbors, gossip, connections, reqs, net, lost>>

\* The first queued reaction runs: the reaction of .then(...) on input i
\* calls the handler when the input resolved and otherwise rejects the
\* promise that .then returned, which queues the reaction of .catch(...).
RunJob ==
  /\ call.called
  /\ call.jobs # <<>>
  /\ LET j == Head(call.jobs)
         c == [call EXCEPT !.jobs = Tail(@)]
         p == call.promises[j.i] IN
       call' = IF j.kind = "catch" THEN onRejected(c, p.val)
               ELSE IF p.st = "resolved" THEN onResolved(c, j.i, p.val)
               ELSE [c EXCEPT !.jobs = Append(@, Job(j.i, "catch"))]
  /\ UNCHANGED <<neighbors, gossip, connections, reqs, net, lost>>

NextAll ==
  \/ \E i \in 1..Len(call.promises) :
       \E outcome \in {Resolved(Vals[i]), Rejected(Errs[i])} :
         SettleInput(i, outcome)
  \/ CallPromise_all
  \/ RunJob

SpecAll == InitAll /\ [][NextAll]_vars

\* The result array of inputs that all resolved.
AllResults == [i \in 1..Len(call.promises) |-> call.promises[i].val]

AllResolved == \A i \in 1..Len(call.promises) : call.promises[i].st = "resolved"

\* What C14 says of resolution and of settling once.
ResolvesInOrder ==
  /\ call.outcome.st = "resolved" =>
       /\ AllResolved
       /\ call.outcome.val = AllResults
  /\ (call.called /\ Len(call.promises) = 0) => call.outcome.st = "resolved"
  /\ (call.called /\ AllResolved /\ call.jobs = <<>>) =>
       call.outcome.st = "resolved"
  /\ (\E i \in 1..Len(call.promises) : call.promises[i].st = "rejected") =>
       call.outcome.st # "resolved"
  /\ (call.called /\ call.jobs = <<>> /\ call.order # <<>>) =>
       call.outcome.st = "rejected"
  /\ call.settles <= 1 \/ call.outcome.st = "rejected"

FirstSeen ==
  IF call.early # {}
  THEN CHOOSE i \in call.early : \A k \in call.early : i <= k
  ELSE call.order[1]

C14_ResolvedWitness ==
  /\ call.called
  /\ call.results = <<"v1", "v2", "v3">>
  /\ call.outcome.st = "resolved"


(***************************************************************************)
(* findInStorage(nest, name) and findInRemoteStorage.  call holds the      *)
(* lookup: what each nest stores under the name (storage), the candidates  *)
(* left (sources), the candidates picked so far (tried), the request of    *)
(* the routeRequest whose outcome the lookup waits for (req) and the       *)
(* outcome of the promise findInStorage returned.                          *)
(***************************************************************************)
Null == "null"
NotFound == "NotFound"
Value == "v"

MaxMissing == 1

\* The tables in which nest n lacks the entry of nest x for <<n, x>> in miss.
Lacking(miss) ==
  [n \in Nodes |->
     [x \in {y \in ReachableFrom(n) : <<n, y>> \notin miss} |-> neighbors[x]]]

\* An entry reaches a nest only through a neighbour that has it: the nests
\* that hold the entry of x are linked to x through nests that hold it.
RECURSIVE HeldWithin(_, _, _)
HeldWithin(tables, x, k) ==
  IF k = 0 THEN {x}
  ELSE LET w == HeldWithin(tables, x, k - 1) IN
         w \cup {n \in Nodes : /\ x \in DOMAIN tables[n]
                               /\ \E m \in w : Includes(neighbors[m], n)}

FloodClosed(tables) ==
  \A n \in Nodes : \A x \in DOMAIN tables[n] :
    n \in HeldWithin(tables, x, Cardinality(Nodes))

\* The subsets of S with up to k elements.
RECURSIVE SubsetsUpTo(_, _)
SubsetsUpTo(S, k) ==
  IF k = 0 THEN {{}}
  ELSE LET smaller == SubsetsUpTo(S, k - 1) IN
         smaller \cup {s \cup {x} : s \in smaller, x \in S}

\* The tables the flood can leave when at most MaxMissing entries have not
\* arrived (yet).
PartialTables ==
  {t \in {Lacking(miss) :
            miss \in SubsetsUpTo({<<n, x>> \in Nodes \X Nodes : n # x}, MaxMissing)} :
     FloodClosed(t)}

\* network(nest)
network(nest) == DOMAIN connections[nest]

NoLookup ==
  [st |-> "none", nest |-> NoNode, storage |-> <<>>, sources |-> {},
   tried |-> <<>>, req |-> 0, outcome |-> Pending]

InitFind ==
  /\ neighbors = Line4
  /\ gossip = [n \in DOMAIN neighbors |-> <<>>]
  /\ connections \in PartialTables
  /\ reqs = <<>>
  /\ net = EmptyBag
  /\ lost = 0
  /\ \E holders \in {h \in SUBSET Nodes : Cardinality(h) <= 1} :
       call = [NoLookup EXCEPT
                 !.storage = [n \in Nodes |-> IF n \in holders THEN Value ELSE Null]]

\* next() with source the candidate that Math.random picks: routeRequest
\* either throws, and the throw rejects the promise of the .then callback
\* next() runs in, or returns the promise the lookup then waits for.
next(c, rs, nt, source) ==
  IF c.sources = {}
  THEN [call |-> [c EXCEPT !.st = "done", !.req = 0,
                           !.outcome = Settle(@, Rejected(NotFound))],
        reqs |-> rs, net |-> nt]
  ELSE LET s == routeRequest(rs, nt, c.nest, source, "storage", "name", 0) IN
         [call |-> IF s.thrown
                   THEN [c EXCEPT !.st = "done", !.req = 0,
                                  !.sources = @ \ {source},
                                  !.tried = Append(@, source),
                                  !.outcome = Settle(@, Rejected(s.err))]
                   ELSE [c EXCEPT !.st = "remote", !.req = Len(s.reqs),
                                  !.sources = @ \ {source},
                                  !.tried = Append(@, source)],
          reqs |-> s.reqs, net |-> s.net]

\* The candidates next() may pick (NoNode stands for no pick: none is left).
Picks(c) == IF c.sources = {} THEN {NoNode} ELSE c.sources

\* The application calls findInStorage(nest, name): storage(nest, name)
\* starts the local read.
CallFindInStorage(nest) ==
  /\ call.st = "none"
  /\ call' = [call EXCEPT !.st = "local", !.nest = nest]
  /\ UNCHANGED <<neighbors, gossip, connections, reqs, net, lost>>

\* The local read completes: found => found != null ? found :
\* findInRemoteStorage(nest, name), which computes sources and calls next().
LocalRead ==
  /\ call.st = "local"
  /\ IF call.storage[call.nest] # Null
     THEN /\ call' = [call EXCEPT !.st = "done",
                        !.outcome = Settle(@, Resolved(call.storage[call.nest]))]
          /\ UNCHANGED <<reqs, net>>
     ELSE \E source \in Picks([call EXCEPT !.sources = network(call.nest) \ {call.nest}]) :
            LET s == next([call EXCEPT !.sources = network(call.nest) \ {call.nest}],
                          reqs, net, source) IN
              /\ Len(s.reqs) <= MaxRelayReqs
              /\ call' = s.call
              /\ reqs' = s.reqs
              /\ net' = s.net
  /\ UNCHANGED <<neighbors, gossip, connections, lost>>

\* The promise of routeRequest has settled:
\* .then(value => value != null ? value : next(), next)
Reaction ==
  /\ call.st = "remote"
  /\ reqs[call.req].outcome.st # "pending"
  /\ LET o == reqs[call.req].outcome IN
       IF o.st = "resolved" /\ o.val # Null
       THEN /\ call' = [call EXCEPT !.st = "done", !.req = 0,
                                    !.outcome = Settle(@, Resolved(o.val))]
            /\ UNCHANGED <<reqs, net>>
       ELSE \E source \in Picks(call) :
              LET s == next(call, reqs, net, source) IN
                /\ Len(s.reqs) <= MaxRelayReqs
                /\ call' = s.call
                /\ reqs' = s.reqs
                /\ net' = s.net
  /\ UNCHANGED <<neighbors, gossip, connections, lost>>

\* requestType("storage", (nest, name) => storage(nest, name)): the
\* transport delivers request message m, the read completes and the wrapper
\* answers with what is stored.
HandleStorage(m) ==
  /\ m.kind = "req"
  /\ reqs[m.req].type = "storage"
  /\ reqs' = [reqs EXCEPT ![m.req].handled = TRUE]
  /\ net' = (net (-) OneMsg(m))
              (+) OneMsg(RepMsg(m.req, "", call.storage[reqs[m.req].target], TRUE))
  /\ UNCHANGED <<neighbors, gossip, connections, call, lost>>

NextFind ==
  \/ \E nest \in {1, 2} : CallFindInStorage(nest)
  \/ LocalRead
  \/ Reaction
  \/ \E i \in 1..Len(reqs) : TimerFire(i)
  \/ \E m \in BagToSet(net) : HandleRoute(m)
  \/ \E m \in BagToSet(net) : HandleStorage(m)
  \/ \E m \in BagToSet(net) : Callback(m)

SpecFind == InitFind /\ [][NextFind]_vars


\* The nests that store a value under the name.
Holders == {n \in Nodes : call.storage[n] # Null}

\* The candidates of the lookup: every known nest other than the nest itself.
Candidates == network(call.nest) \ {call.nest}

\* C11: the lookup fails only after every known nest other than the nest
\* itself has been tried, and then with NotFound and no other error: a
\* failed read of a candidate, whatever the error, only makes it go on to
\* the next candidate.
C11_FailsOnlyNotFound ==
  call.outcome.st = "rejected" =>
    /\ call.outcome.val = NotFound
    /\ call.sources = {}
    /\ Range(call.tried) = Candidates

\* What the code does: the lookup also fails with the NoRoute that
\* routeRequest throws for the candidate picked last, whatever is left.
C11_AsCoded ==
  /\ call.outcome.st = "rejected" =>
       \/ /\ call.outcome.val = NotFound
          /\ call.sources = {}
          /\ Range(call.tried) = Candidates
          /\ \A i \in 1..Len(reqs) : reqs[i].parent = 0 => reqs[i].outcome # Resolved(Value)
       \/ /\ call.outcome.val = NoRoute
          /\ call.tried # <<>>
          /\ NoWay(call.nest, call.tried[Len(call.tried)])
  /\ call.st = "remote" => reqs[call.req].parent = 0
  /\ Len(call.tried) = Cardinality(Range(call.tried))

\* Nest 1 on the line of four lacks the entry of nest 3; the key is nowhere.
\* It picks nest 4 first: routeRequest throws and the lookup fails with
\* NoRoute while nest 2 has not been tried.
C11_Throws ==
  /\ call.nest = 1
  /\ Holders = {}
  /\ call.tried = <<4>>
  /\ call.sources = {2}
  /\ call.outcome = Rejected(NoRoute)

\* A read that timed out was swallowed and the lookup ended with NotFound.
C11_Swallows ==
  /\ call.outcome = Rejected(NotFound)
  /\ \E i \in 1..Len(reqs) : reqs[i].parent = 0 /\ reqs[i].outcome = Timeout

\* C12: when exactly one nest stores a value under the name and the looking
\* nest has that nest in its table, the lookup resolves to the value
\* whatever the order of the picks (here: whenever no request timed out),
\* and no candidate is picked twice.
C12_OrderIndependent ==
  /\ Len(call.tried) = Cardinality(Range(call.tried))
  /\ (/\ call.st = "done"
      /\ Cardinality(Holders) = 1
      /\ Holders \subseteq network(call.nest)
      /\ \A i \in 1..Len(reqs) : reqs[i].outcome # Timeout) =>
       call.outcome = Resolved(Value)

\* Nest 1 lacks the entry of nest 3 and nest 2 stores the value: with nest 2
\* picked first the lookup resolves, with nest 4 picked first it fails.
C12_PickedHolderFirst ==
  /\ call.nest = 1
  /\ Holders = {2}
  /\ 3 \notin network(1)
  /\ call.tried = <<2>>
  /\ call.outcome = Resolved(Value)

C12_PickedOtherFirst ==
  /\ call.nest = 1
  /\ Holders = {2}
  /\ 3 \notin network(1)
  /\ call.tried = <<4>>
  /\ call.outcome = Rejected(NoRoute)


(***************************************************************************)
(* requestType(name, handler): the wrapper it registers, dispatched on a   *)
(* handler that returns a plain value ("value"), throws ("throw"), or      *)
(* returns a promise: one rejected already ("rejected") or one pending     *)
(* ("promise").  call is the list of dispatches: the promise of            *)
(* Promise.resolve(handler(...)), whether its reaction is queued, and the  *)
(* calls of the transport's completion callback so far.                    *)
(***************************************************************************)
MaxDispatches == 3

Behaviours == {"value", "throw", "rejected", "promise"}
Response == "response"
Failure == "failure"

CallbackArgs(failed, value) == [failed |-> failed, value |-> value]

\* The body of the wrapper: try { Promise.resolve(handler(...)).then(...) }
\* catch (exception) { callback(exception) }
requestType(behaviour) ==
  IF behaviour = "throw"
  THEN [handler |-> behaviour, promise |-> Pending, queued |-> FALSE,
        callbacks |-> <<CallbackArgs(Failure, "")>>]
  ELSE [handler |-> behaviour,
        promise |-> IF behaviour = "value" THEN Resolved(Response)
                    ELSE IF behaviour = "rejected" THEN Rejected(Failure)
                    ELSE Pending,
        queued |-> behaviour # "promise",
        callbacks |-> <<>>]

thenCallsBoth(d) ==
  [d EXCEPT !.queued = FALSE,
            !.callbacks = @ \o <<CallbackArgs("", d.promise.val),
                                 CallbackArgs(d.promise.val, "")>>]

\* .then(response => callback(null, response), failure => callback(failure))
then(d) ==
  [d EXCEPT !.queued = FALSE,
            !.callbacks = Append(@, IF d.promise.st = "resolved"
                                    THEN CallbackArgs("", d.promise.val)
                                    ELSE CallbackArgs(d.promise.val, ""))]

InitType ==
  /\ neighbors = TwoNests
  /\ gossip = NoTables(TwoNests)
  /\ connections = NoTables(TwoNests)
  /\ reqs = <<>>
  /\ net = EmptyBag
  /\ lost = 0
  /\ call = <<>>

\* The transport dispatches a request to the wrapper.
Dispatch(behaviour) ==
  /\ Len(call) < MaxDispatches
  /\ call' = Append(call, requestType(behaviour))
  /\ UNCHANGED <<neighbors, gossip, connections, reqs, net, lost>>

\* The promise that the handler of dispatch k returned settles.
HandlerSettles(k, outcome) ==
  /\ call[k].handler = "promise"
  /\ call[k].promise.st = "pending"
  /\ call' = [call EXCEPT ![k].promise = Settle(@, outcome), ![k].queued = TRUE]
  /\ UNCHANGED <<neighbors, gossip, connections, reqs, net, lost>>

\* The reaction of dispatch k runs.
RunThen(k) ==
  /\ call[k].queued
  /\ call' = [call EXCEPT ![k] = then(@)]
  /\ UNCHANGED <<neighbors, gossip, connections, reqs, net, lost>>

NextType ==
  \/ \E behaviour \in Behaviours : Dispatch(behaviour)
  \/ \E k \in 1..Len(call) : \E outcome \in {Resolved(Response), Rejected(Failure)} :
       HandlerSettles(k, outcome)
  \/ \E k \in 1..Len(call) : RunThen(k)

SpecType == InitType /\ [][NextType]_vars

FairSpecType == SpecType /\ WF_vars(\E k \in 1..Len(call) : RunThen(k))

\* C13: every dispatch invokes the completion callback at most once, and
\* exactly once when the handler's result has settled and its reaction has
\* run: with (null, value) for a value returned or resolved to, with the
\* error for a throw or a rejection; a throw is answered at once, and a
\* settled result is always answered in the end.
C13_CallbackOnce ==
  /\ [](\A k \in 1..Len(call) :
          LET d == call[k] IN
            /\ Len(d.callbacks) <= 1
            /\ d.handler = "throw" => d.callbacks = <<CallbackArgs(Failure, "")>>
            /\ (d.handler # "throw" /\ d.promise.st = "pending") => d.callbacks = <<>>
            /\ (d.promise.st = "resolved" /\ ~d.queued) =>
                 d.callbacks = <<CallbackArgs("", Response)>>
            /\ (d.promise.st = "rejected" /\ ~d.queued) =>
                 d.callbacks = <<CallbackArgs(Failure, "")>>)
  /\ [][\A k \in 1..Len(call) :
          call[k].callbacks # <<>> => call'[k].callbacks = call[k].callbacks]_vars
  /\ \A k \in 1..MaxDispatches :
       (k <= Len(call) /\ call[k].promise.st # "pending")
         ~> (k <= Len(call) /\ Len(call[k].callbacks) = 1)

\* Three dispatches: a handler that threw, one whose promise rejected later
\* and one that returned a value; each has had its one callback.
C13_Witness ==
  /\ Len(call) = 3
  /\ call[1].handler = "throw"
  /\ call[2].handler = "promise" /\ call[2].promise = Rejected(Failure)
  /\ call[3].handler = "value"
  /\ \A k \in 1..3 : Len(call[k].callbacks) = 1


(***************************************************************************)
(* SpecRing: the flood of connections on the triangle, where what a nest   *)
(* sent out comes back to it around the ring.                              *)
(***************************************************************************)
MaxRingReqs == 8

InitRing ==
  /\ neighbors = Triangle
  /\ gossip = [n \in DOMAIN neighbors |-> <<>>]
  /\ connections = AfterStartup.connections
  /\ reqs = AfterStartup.reqs
  /\ net = AfterStartup.net
  /\ call = <<>>
  /\ lost = 0

HandleRingConnections(m) == DeliverConnections(m, MaxRingReqs)

NextRing ==
  \/ \E i \in 1..Len(reqs) : TimerFire(i)
  \/ \E m \in BagToSet(net) : HandleRingConnections(m)
  \/ \E m \in BagToSet(net) : Callback(m)

SpecRing == InitRing /\ [][NextRing]_vars

\* C15: after startup the entry a nest holds for itself is its own list of
\* neighbours, and no step, the delivery of a "connections" message
\* included, changes it.
C15_OwnEntry ==
  /\ [](\A n \in Nodes : /\ n \in DOMAIN connections[n]
                         /\ connections[n][n] = neighbors[n])
  /\ [][\A n \in Nodes : connections'[n][n] = connections[n][n]]_vars

\* A nest has been handed a "connections" message about itself.
C15_Witness ==
  \E i \in 1..Len(reqs) :
    /\ reqs[i].type = "connections"
    /\ reqs[i].handled
    /\ reqs[i].conn.name = reqs[i].target
    /\ connections[reqs[i].target][reqs[i].target] = neighbors[reqs[i].target]

\* The requests by which nest sent on the entry of name.
SentOn(nest, name) ==
  {i \in 1..Len(reqs) : /\ reqs[i].type = "connections"
                        /\ reqs[i].nest = nest
                        /\ reqs[i].conn.name = name
                        /\ reqs[i].exceptFor # NoNode}

\* The requests of nest's startup broadcast.
Announced(nest) ==
  {i \in 1..Len(reqs) : /\ reqs[i].type = "connections"
                        /\ reqs[i].nest = nest
                        /\ reqs[i].exceptFor = NoNode}

RECURSIVE Sum(_, _)
Sum(f, S) == IF S = {} THEN 0
             ELSE LET x == CHOOSE y \in S : TRUE IN f[x] + Sum(f, S \ {x})

\* One request to each neighbour at startup, and for each entry of another
\* nest one request to each neighbour but the sender.
FloodBound ==
  Sum([n \in Nodes |-> Len(neighbors[n])
                         + (Cardinality(Nodes) - 1) * (Len(neighbors[n]) - 1)],
      Nodes)

MaxSeenCalls == 2

InitSeen ==
  /\ neighbors = TwoNests
  /\ gossip = NoTables(TwoNests)
  /\ connections = NoTables(TwoNests)
  /\ reqs = <<>>
  /\ net = EmptyBag
  /\ call = <<>>
  /\ lost = 0

\* The application calls sendGossip(nest, message), again or not.
CallSendGossipAgain(nest, message) ==
  /\ Len(call) < MaxSeenCalls
  /\ LET s == sendGossip(gossip, reqs, net, nest, message, NoNode) IN
       /\ gossip' = s.gossip
       /\ reqs' = s.reqs
       /\ net' = s.net
  /\ call' = Append(call, [nest |-> nest, message |-> message])
  /\ UNCHANGED <<neighbors, connections, lost>>

NextSeen ==
  \/ \E nest \in Nodes, message \in Msgs : CallSendGossipAgain(nest, message)
  \/ \E i \in 1..Len(reqs) : TimerFire(i)
  \/ \E m \in BagToSet(net) : HandleGossip(m)
  \/ \E m \in BagToSet(net) : Callback(m)

SpecSeen == InitSeen /\ [][NextSeen]_vars

\* C16: whatever the sendGossip calls and the deliveries, a nest has each
\* message recorded at most once.
C16_SeenIsSet ==
  \A n \in Nodes : \A message \in Msgs : Count(gossip[n], message) <= 1

\* What the code does: nothing recorded is ever removed, the handler records
\* a message only when it is new, and every sendGossip call of the
\* application records its message once more.
C16_AsCoded ==
  /\ [][\A n \in Nodes :
          /\ Len(gossip'[n]) >= Len(gossip[n])
          /\ SubSeq(gossip'[n], 1, Len(gossip[n])) = gossip[n]
          /\ (call' = call /\ gossip'[n] # gossip[n]) =>
               ~Includes(gossip[n], gossip'[n][Len(gossip'[n])])]_vars
  /\ [](\A n \in Nodes : \A message \in Msgs :
          Count(gossip[n], message)
            <= Cardinality({k \in CallsOf(message) : call[k].nest = n}) + 1)

\* sendGossip(1, "m1") was called twice.
C16_CalledTwice ==
  /\ call = <<[nest |-> 1, message |-> "m1"], [nest |-> 1, message |-> "m1"]>>
  /\ gossip[1] = <<"m1", "m1">>


(***************************************************************************)
(* SpecWork: findRoute run one iteration of its inner loop at a time, on   *)
(* the tables of SpecRoute.  call holds the work list, the index i of the  *)
(* outer loop and the index k of the inner one.                            *)
(***************************************************************************)
visitAlways(work, name, via) ==
  Append(work, [at |-> name, via |-> IF via # NoNode THEN via ELSE name])

\* if (!work.some(w => w.at == next)) work.push({at: next, via: via || next})
visit(work, name, via) ==
  IF ~InWork(work, name)
  THEN Append(work, [at |-> name, via |-> IF via # NoNode THEN via ELSE name])
  ELSE work

InitWork ==
  /\ neighbors = TwoNests
  /\ gossip = NoTables(TwoNests)
  /\ \E t \in Tables(RouteNames, MaxDeg) : connections = t
  /\ reqs = <<>>
  /\ net = EmptyBag
  /\ \E from, to \in RouteNames :
       call = [st |-> "running", from |-> from, to |-> to, via |-> NoNode,
               work |-> <<[at |-> from, via |-> NoNode]>>, i |-> 1, k |-> 1]
  /\ lost = 0

\* One test of a loop condition and, inside the inner loop, its body.
StepFindRoute ==
  /\ call.st = "running"
  /\ call' =
       IF call.i > Len(call.work)
       THEN [call EXCEPT !.st = "returned", !.via = NoNode]
       ELSE LET list == GetOrEmpty(connections, call.work[call.i].at)
                via == call.work[call.i].via IN
              IF call.k > Len(list)
              THEN [call EXCEPT !.i = @ + 1, !.k = 1]
              ELSE IF list[call.k] = call.to
              THEN [call EXCEPT !.st = "returned", !.via = via]
              ELSE [call EXCEPT !.work = visit(@, list[call.k], via),
                                !.k = @ + 1]
  /\ UNCHANGED <<neighbors, gossip, connections, reqs, net, lost>>

NextWork == StepFindRoute

SpecWork == InitWork /\ [][NextWork]_vars

FairSpecWork == SpecWork /\ WF_vars(StepFindRoute)

\* C17: findRoute returns, for every table (cyclic ones, ones with missing
\* entries) and also when from = to; no name is on the work list twice, the
\* start is only its first item, and the work list is never longer than the
\* number of names in the table plus one.
C17_Terminates ==
  /\ [](/\ \A a, b \in 1..Len(call.work) :
             a # b => call.work[a].at # call.work[b].at
        /\ call.work[1].at = call.from
        /\ Len(call.work) <= Cardinality(AllNames(connections)) + 1)
  /\ <>(call.st = "returned")

\* The two ways of running findRoute agree.
C17_SameResult ==
  call.st = "returned" => call.via = findRoute(call.from, call.to, connections)

\* A cyclic table with a missing entry and from = to: every name was put on
\* the work list once and the search ended without a route.
C17_Witness ==
  /\ call.st = "returned"
  /\ call.from = 1
  /\ call.to = 1
  /\ connections = (1 :> <<2, 3>>) @@ (2 :> <<3, 2>>)
  /\ Len(call.work) = 3
  /\ call.via = NoNode


(***************************************************************************)
(* chicks(nest, year).  call holds list, the reads of the async callbacks  *)
(* (for each name: the value of list the callback took before its await,   *)
(* and the request it awaits, 0 for the local read), the order in which    *)
(* the reads completed and the outcome of the promise chicks returned.  A  *)
(* line of the list is written as the name it starts with.                 *)
(***************************************************************************)
NoChicks ==
  [st |-> "none", nest |-> NoNode, storage |-> <<>>, list |-> <<>>,
   reads |-> <<>>, order |-> <<>>, outcome |-> Pending]

\* The names of a set, lowest first.
RECURSIVE Ascending(_)
Ascending(S) ==
  IF S = {} THEN <<>>
  ELSE LET x == CHOOSE y \in S : \A z \in S : y <= z IN
         <<x>> \o Ascending(S \ {x})

\* anyStorage(nest, source, name): the local read, or routeRequest.
anyStorage(rs, nt, nest, source) ==
  IF source = nest
  THEN [thrown |-> FALSE, err |-> "", reqs |-> rs, net |-> nt, req |-> 0]
  ELSE LET s == routeRequest(rs, nt, nest, source, "storage", "chicks", 0) IN
         [thrown |-> s.thrown, err |-> s.err, reqs |-> s.reqs, net |-> s.net,
          req |-> IF s.thrown THEN 0 ELSE Len(s.reqs)]

\* The synchronous part of the async callbacks that map runs, for the names
\* from the k-th on: each takes the value of list, calls anyStorage and
\* awaits.
RECURSIVE StartReads(_, _, _)
StartReads(names, k, st) ==
  IF k > Len(names) THEN st
  ELSE LET s == anyStorage(st.reqs, st.net, st.call.nest, names[k])
           read == [st |-> IF s.thrown THEN "failed" ELSE "waiting",
                    taken |-> st.call.list, req |-> s.req] IN
         StartReads(names, k + 1,
           [call |-> [st.call EXCEPT
                        !.reads = @ @@ (names[k] :> read),
                        !.outcome = IF s.thrown THEN Settle(@, Rejected(s.err)) ELSE @],
            reqs |-> s.reqs, net |-> s.net])

chicks(c, rs, nt, nest) ==
  StartReads(Ascending(network(nest)), 1,
             [call |-> [c EXCEPT !.st = "reading", !.nest = nest, !.list = <<>>],
              reqs |-> rs, net |-> nt])

AllRead(c) == \A name \in DOMAIN c.reads : c.reads[name].st = "done"

\* The await of the callback of name has its value: list += `${name}: ...`
\* stores the value of list taken before the await with the line appended;
\* when it is the last read, Promise.all resolves and chicks returns list.
resume(c, name) ==
  LET done == [c EXCEPT !.reads[name].st = "done",
                        !.list = c.reads[name].taken \o <<name>>,
                        !.order = Append(@, name)] IN
    [done EXCEPT !.outcome = IF AllRead(done) THEN Settle(@, Resolved(done.list)) ELSE @]

InitChicks ==
  /\ neighbors = Line3
  /\ gossip = [n \in DOMAIN neighbors |-> <<>>]
  /\ connections = Settled
  /\ reqs = <<>>
  /\ net = EmptyBag
  /\ lost = 0
  /\ call = [NoChicks EXCEPT !.storage = [n \in Nodes |-> Value]]

\* The application calls chicks(nest, year).
CallChicks(nest) ==
  /\ call.st = "none"
  /\ LET s == chicks(call, reqs, net, nest) IN
       /\ call' = s.call
       /\ reqs' = s.reqs
       /\ net' = s.net
  /\ UNCHANGED <<neighbors, gossip, connections, lost>>

\* The local read completes.
LocalChick ==
  /\ call.st = "reading"
  /\ call.nest \in DOMAIN call.reads
  /\ call.reads[call.nest].st = "waiting"
  /\ call' = resume(call, call.nest)
  /\ UNCHANGED <<neighbors, gossip, connections, reqs, net, lost>>

\* The promise of routeRequest for name has settled.
RemoteChick(name) ==
  /\ call.st = "reading"
  /\ name # call.nest
  /\ call.reads[name].st = "waiting"
  /\ reqs[call.reads[name].req].outcome.st # "pending"
  /\ LET o == reqs[call.reads[name].req].outcome IN
       call' = IF o.st = "resolved" THEN resume(call, name)
               ELSE [call EXCEPT !.reads[name].st = "failed",
                                 !.outcome = Settle(@, o)]
  /\ UNCHANGED <<neighbors, gossip, connections, reqs, net, lost>>

NextChicks ==
  \/ \E nest \in Nodes : CallChicks(nest)
  \/ LocalChick
  \/ \E name \in DOMAIN call.reads : RemoteChick(name)
  \/ \E i \in 1..Len(reqs) : TimerFire(i)
  \/ \E m \in BagToSet(net) : HandleRoute(m)
  \/ \E m \in BagToSet(net) : HandleStorage(m)
  \/ \E m \in BagToSet(net) : Callback(m)

SpecChicks == InitChicks /\ [][NextChicks]_vars

\* C18: when all the reads have completed, chicks resolves with a list that
\* has one line for every name in the nest's table, whatever the order in
\* which the reads completed.
C18_EveryLine ==
  call.outcome.st = "resolved" =>
    /\ Range(call.outcome.val) = network(call.nest)
    /\ Len(call.outcome.val) = Cardinality(network(call.nest))

\* What the code does: the list is the line of the read that completed last.
C18_AsCoded ==
  /\ call.outcome.st = "resolved" =>
       /\ AllRead(call)
       /\ Range(call.order) = network(call.nest)
       /\ call.outcome.val = <<call.order[Len(call.order)]>>
  /\ (call.st = "reading" /\ AllRead(call)) => call.outcome.st = "resolved"

\* chicks(nest 2) on the line: the reads of 1, 2 and 3 completed in the
\* order 3, 1, 2 and the list is the line of nest 2.
C18_LinesLost ==
  /\ call.nest = 2
  /\ call.order = <<3, 1, 2>>
  /\ call.outcome = Resolved(<<2>>)


(***************************************************************************)
(* SpecLoop: one routeRequest(1, target, "ping", null) on a ring of six    *)
(* nests, with the tables the flood can leave: settled, or with one entry  *)
(* that has not arrived.                                                   *)
(***************************************************************************)
Ring6 == <<<<2, 6>>, <<1, 3>>, <<2, 4>>, <<3, 5>>, <<4, 6>>, <<5, 1>>>>

InitLoop ==
  /\ neighbors = Ring6
  /\ gossip = [n \in DOMAIN neighbors |-> <<>>]
  /\ connections \in PartialTables
  /\ reqs = <<>>
  /\ net = EmptyBag
  /\ call = NoCall
  /\ lost = 0

NextLoop ==
  \/ \E target \in Nodes \ {1} : CallRouteRequest(1, target)
  \/ \E i \in 1..Len(reqs) : TimerFire(i)
  \/ \E m \in BagToSet(net) : HandleRoute(m)
  \/ \E m \in BagToSet(net) : HandlePing(m)
  \/ \E m \in BagToSet(net) : Callback(m)

SpecLoop == InitLoop /\ [][NextLoop]_vars

\* The requests through which request i came about: its parent, the parent
\* of its parent, and so on.
RECURSIVE Ancestors(_)
Ancestors(i) ==
  IF reqs[i].parent = 0 THEN {}
  ELSE {reqs[i].parent} \cup Ancestors(reqs[i].parent)

\* C20: the chain of forwardings of a routeRequest call passes through no
\* nest twice, and the request that ends it goes from a neighbour of the
\* target to the target; also with partial tables.
C20_LoopFree ==
  \A i \in 1..Len(reqs) :
    /\ \A j \in Ancestors(i) : reqs[j].nest # reqs[i].nest
    /\ reqs[i].type # "route" =>
         /\ reqs[i].target = call.target
         /\ Includes(neighbors[reqs[i].nest], call.target)

\* What holds with partial tables: every request goes to a neighbour, a
\* "route" request asks for the target of the call, and the chain is free of
\* loops when the tables are settled.
C20_AsCoded ==
  \A i \in 1..Len(reqs) :
    /\ Includes(neighbors[reqs[i].nest], reqs[i].target)
    /\ reqs[i].type = "route" => reqs[i].inner.target = call.target
    /\ reqs[i].type # "route" => reqs[i].target = call.target
    /\ (\A n \in Nodes : DOMAIN connections[n] = Nodes) =>
         \A j \in Ancestors(i) : reqs[j].nest # reqs[i].nest

\* Nest 2 lacks the entry of nest 3: nest 1 sends the request for nest 4 to
\* nest 2, nest 2 sends it back to nest 1, nest 1 to nest 2 again.
C20_PingPong ==
  /\ call.target = 4
  /\ 3 \notin DOMAIN connections[2]
  /\ Len(reqs) >= 3
  /\ reqs[1].nest = 1 /\ reqs[1].target = 2
  /\ reqs[2].nest = 2 /\ reqs[2].target = 1 /\ reqs[2].parent = 1
  /\ reqs[3].nest = 1 /\ reqs[3].target = 2 /\ reqs[3].parent = 2

====
